---- MODULE Spec2Model ----
(***************************************************************************)
(* megaphone: the state_machine operator (src/src/state_machine.rs), the   *)
(* control protocol ControlSetBuilder and key_to_bin (src/src/lib.rs).     *)
(*                                                                         *)
(* Seven specifications share the module:                                  *)
(*   SpecOp   one worker's state_machine operator and its input            *)
(*   SpecLate the operator with an input that also delivers late records   *)
(*   SpecOrd  the operator with records of one key and differing values    *)
(*   SpecCtl  a ControlSetBuilder driven by arbitrary calls                *)
(*   SpecDrv  a ControlSetBuilder driven as the control input drives it    *)
(*   SpecBin  key_to_bin on 64-bit keys                                    *)
(*   SpecMig  the workers' state stores under committed control sets       *)
(* Each leaves the variables of the others at their initial values.        *)
(***************************************************************************)
EXTENDS Integers, Sequences, FiniteSets, TLC

VARIABLES
    \* ---- state_machine operator --------------------------------------
    frontier,     \* the input's frontier: an antichain (set) of times
    input,        \* batches queued at the operator's input, not yet pulled
    pending,      \* HashMap time -> Vec<record>, as a function on its keys
    notif,        \* the notificator's requested times (time -> requests)
    states,       \* per bin (key_id): HashMap key -> D, as a function on its keys
    output,       \* the output stream: sequence of [time, val]
    folded,       \* history: one entry per call of fold
    received,     \* history: the records pulled from the input so far
    sent,         \* history: number of records sent so far
    seen,         \* history: the frontier read by the last invocation, as {f}
    \* ---- ControlSetBuilder ---------------------------------------------
    builder,      \* the ControlSetBuilder under construction
    previous,     \* the last committed ControlSet
    ctl,          \* "ok", or what the last call died of
    applied,      \* history: fragments apply accepted into this builder
    last,         \* history: the last call, its argument and what it saw
    clock,        \* the control input's time
    builds,       \* history: number of successful builds
    \* ---- key_to_bin ------------------------------------------------------
    shift,        \* BIN_SHIFT of the build
    key,          \* a u64 key, as four 16-bit limbs, most significant first
    bin,          \* {} or {key_to_bin(key)}
    \* ---- state relocation between workers -------------------------------
    stores,       \* per worker, per bin: HashMap key -> D
    transit,      \* bin states sent to their new owner, not yet arrived
    held,         \* history: the stores when the last control set was committed
    resumed       \* history: per bin, {} or {the state its new owner resumed with}

opvars  == <<frontier, input, pending, notif, states, output, folded, received, sent, seen>>
ctlvars == <<builder, previous, ctl, applied, last, clock, builds>>
binvars == <<shift, key, bin>>
migvars == <<stores, transit, held, resumed>>
vars    == <<opvars, ctlvars, binvars, migvars>>

----------------------------------------------------------------------------
\* Bounds of the model.
MaxTime    == 2     \* times are 0..MaxTime
MaxRecords == 3     \* records sent to the operator
MaxBatch   == 2     \* records per batch

Times == 0..MaxTime
Keys  == {"a", "b"}

\* The bin (key_id) a record of this key carries.
KeyId(k) == IF k = "a" THEN 2 ELSE 0
Bins == {KeyId(k) : k \in Keys}

SeqMin(S) == CHOOSE x \in S : \A y \in S : x <= y

----------------------------------------------------------------------------
\* Frontier queries (MutableAntichain): some element strictly less / less or equal.
less_than(f, t)  == \E x \in f : x < t
less_equal(f, t) == \E x \in f : x <= t

\* fold: the transition logic handed to state_machine. The instance is the
\* word count's (agg += val, emit agg) made to deregister the key at 2.
RemoveAt == 2
fold(k, val, state) ==
    LET agg == state + val
    IN  [state |-> agg, remove |-> agg >= RemoveAt, out |-> <<agg>>]

\* D::default()
DefaultState == 0

\* The operator-local data one invocation works on.
Mach == [pending |-> pending, notif |-> notif, states |-> states,
         output |-> output, folded |-> folded, received |-> received]

\* The key's entry after fold (lines 62-65): written in place, removed on request.
StoreState_keep(bs, k, res) ==
    [x \in (DOMAIN bs) \cup {k} |-> IF x = k THEN res.state ELSE bs[x]]
StoreState(bs, k, res) ==
    IF res.remove
    THEN [x \in (DOMAIN bs) \ {k} |-> bs[x]]
    ELSE [x \in (DOMAIN bs) \cup {k} |-> IF x = k THEN res.state ELSE bs[x]]

\* states.entry(key).or_insert_with(Default::default); fold; remove; give_iterator.
\* The history entry keeps the record, the states before and after, and where
\* the record's outputs start in the output stream.
FoldOne(m, f, t, r, path) ==
    LET bs  == m.states[r.key_id]
        cur == IF r.key \in DOMAIN bs THEN bs[r.key] ELSE DefaultState
        res == fold(r.key, r.val, cur)
        nst == [m.states EXCEPT ![r.key_id] = StoreState(bs, r.key, res)]
    IN  [m EXCEPT !.states  = nst,
                  !.output  = m.output \o [i \in 1..Len(res.out) |-> [time |-> t, val |-> res.out[i]]],
                  !.folded  = Append(m.folded, [id |-> r.id, time |-> t, path |-> path, frontier |-> f,
                                                key |-> r.key, val |-> r.val, key_id |-> r.key_id,
                                                before |-> m.states, after |-> nst,
                                                out |-> Len(m.output)])]

RECURSIVE FoldAll(_, _, _, _, _)
FoldAll(m, f, t, rs, path) ==
    IF rs = <<>> THEN m
    ELSE FoldAll(FoldOne(m, f, t, Head(rs), path), f, t, Tail(rs), path)

\* pending.remove(time): the map without the entry.
TakePending_keep(p, t) == p
TakePending(p, t) == [x \in (DOMAIN p) \ {t} |-> p[x]]

\* One notification delivered for time t.
Notified(m, f, t) ==
    IF t \in DOMAIN m.pending
    THEN FoldAll([m EXCEPT !.pending = TakePending(m.pending, t)], f, t, m.pending[t], "notify")
    ELSE m

\* notificator.next(&[frontier]): the requested times the frontier has passed,
\* least first, one delivery per request.
Available(n, f) == {t \in Times : n[t] > 0 /\ ~less_equal(f, t)}

RECURSIVE DrainNotif(_, _)
DrainNotif(m, f) ==
    IF Available(m.notif, f) = {} THEN m
    ELSE LET t == SeqMin(Available(m.notif, f))
         IN  DrainNotif(Notified([m EXCEPT !.notif[t] = @ - 1], f, t), f)

\* The test of line 74: stash if not time yet.
ShouldStash(f, t) == less_than(f, t)

\* notificator.notify_at(time.retain()) of line 76.
RequestNotify_none(n, t) == n
RequestNotify(n, t) == [n EXCEPT ![t] = @ + 1]

\* One batch pulled from the input.
Pulled(m, f, b) ==
    LET m1 == [m EXCEPT !.received = @ \cup {[id |-> b.data[i].id, time |-> b.time] : i \in 1..Len(b.data)}]
    IN  IF ShouldStash(f, b.time)
        THEN [m1 EXCEPT
                !.pending = [x \in (DOMAIN m.pending) \cup {b.time} |->
                               IF x = b.time
                               THEN (IF x \in DOMAIN m.pending THEN m.pending[x] ELSE <<>>) \o b.data
                               ELSE m.pending[x]],
                !.notif = RequestNotify(@, b.time)]
        ELSE FoldAll(m1, f, b.time, b.data, "immediate")

RECURSIVE DrainInput(_, _, _)
DrainInput(m, f, bs) ==
    IF bs = <<>> THEN m
    ELSE DrainInput(Pulled(m, f, Head(bs)), f, Tail(bs))

\* One invocation of the operator's closure: the notifications, then the input.
Invocation_inputFirst(m, f, bs) == DrainNotif(DrainInput(m, f, bs), f)
Invocation(m, f, bs) == DrainInput(DrainNotif(m, f), f, bs)

----------------------------------------------------------------------------
\* The operator as constructed (line 45: pending is empty), before any input;
\* the builder and key_to_bin parts are idle.
OpInit ==
    /\ frontier = {0}
    /\ input = <<>>
    /\ pending = <<>>
    /\ notif = [t \in Times |-> 0]
    /\ states = [b \in Bins |-> <<>>]
    /\ output = <<>>
    /\ folded = <<>>
    /\ received = {}
    /\ sent = 0
    /\ seen = {}
    /\ builder = 0 /\ previous = 0 /\ ctl = "idle" /\ applied = <<>>
    /\ last = 0 /\ clock = 0 /\ builds = 0
    /\ shift = 0 /\ key = <<>> /\ bin = {}
    /\ stores = <<>> /\ transit = {} /\ held = <<>> /\ resumed = <<>>

\* The substrate delivers a batch of records of one time the frontier still allows.
Send ==
    \E t \in Times, n \in 1..MaxBatch, ks \in [1..MaxBatch -> Keys] :
        /\ less_equal(frontier, t)
        /\ sent + n <= MaxRecords
        /\ input' = Append(input, [time |-> t,
                                   data |-> [i \in 1..n |-> [id |-> sent + i, key |-> ks[i],
                                                             val |-> 1, key_id |-> KeyId(ks[i])]]])
        /\ sent' = sent + n
        /\ UNCHANGED <<frontier, pending, notif, states, output, folded, received, seen, ctlvars, binvars, migvars>>

\* The frontier advances, never past a batch still queued at the input.
Advance ==
    \E f \in {{t} : t \in Times} \cup {{}} :
        /\ frontier # {}
        /\ \A x \in frontier : (f = {} \/ \E y \in f : x < y)
        /\ \A i \in 1..Len(input) : less_equal(f, input[i].time)
        /\ frontier' = f
        /\ UNCHANGED <<input, pending, notif, states, output, folded, received, sent, seen, ctlvars, binvars, migvars>>

\* The scheduler runs the operator.
Invoke ==
    LET m == Invocation(Mach, frontier, input)
    IN  /\ pending' = m.pending
        /\ notif' = m.notif
        /\ states' = m.states
        /\ output' = m.output
        /\ folded' = m.folded
        /\ received' = m.received
        /\ input' = <<>>
        /\ seen' = {frontier}
        /\ UNCHANGED <<frontier, sent, ctlvars, binvars, migvars>>

OpNext == Send \/ Advance \/ Invoke
SpecOp == OpInit /\ [][OpNext]_vars

\* The substrate breaks its contract: a record of a time the frontier has
\* already passed is delivered.
SendLate ==
    \E t \in Times, k \in Keys :
        /\ ~less_equal(frontier, t)
        /\ sent + 1 <= MaxRecords
        /\ input' = Append(input, [time |-> t,
                                   data |-> <<[id |-> sent + 1, key |-> k,
                                               val |-> 1, key_id |-> KeyId(k)]>>])
        /\ sent' = sent + 1
        /\ UNCHANGED <<frontier, pending, notif, states, output, folded, received, seen, ctlvars, binvars, migvars>>

LateNext == Send \/ SendLate \/ Advance \/ Invoke
SpecLate == OpInit /\ [][LateNext]_vars

\* The substrate delivers one record of key "a" with a value of its choice, of
\* a time the frontier still allows.
Vals == {1, 2}
SendVal ==
    \E t \in Times, v \in Vals :
        /\ less_equal(frontier, t)
        /\ sent + 1 <= MaxRecords
        /\ input' = Append(input, [time |-> t,
                                   data |-> <<[id |-> sent + 1, key |-> "a",
                                               val |-> v, key_id |-> KeyId("a")]>>])
        /\ sent' = sent + 1
        /\ UNCHANGED <<frontier, pending, notif, states, output, folded, received, seen, ctlvars, binvars, migvars>>

OrdNext == SendVal \/ Advance \/ Invoke
SpecOrd == OpInit /\ [][OrdNext]_vars

----------------------------------------------------------------------------
\* The control protocol: Control, ControlInst, ControlSet, ControlSetBuilder.

BIN_SHIFT == 2      \* the bin-2 build
MaxCount  == 2      \* fragments declare a count in 0..MaxCount
MaxCaps   == 2      \* times handed to one builder's frontier()
MaxBuilds == 2      \* control sets the driver commits in one run

RECURSIVE Pow2(_)
Pow2(n) == IF n = 0 THEN 1 ELSE 2 * Pow2(n - 1)

\* Option<T>: None is {}, Some(x) is {x}.
Some(x) == {x}
Unwrap(o) == CHOOSE x \in o : TRUE
UnwrapOr(o, d) == IF o = {} THEN d ELSE Unwrap(o)

\* ControlInst
MapInst(m)     == [tag |-> "Map",  map |-> m,    bin |-> 0, target |-> 0]
MoveInst(b, w) == [tag |-> "Move", map |-> <<>>, bin |-> b, target |-> w]
NoneInst       == [tag |-> "None", map |-> <<>>, bin |-> 0, target |-> 0]

\* The instructions the control producer draws from: a full map, a map of the
\* wrong length, two moves of bin 2, the no-op.
Insts == {MapInst(<<0, 1, 2, 3>>), MapInst(<<0>>), MoveInst(2, 1), MoveInst(2, 3), NoneInst}
Seqs == {5, 6}
CapTimes == {1, 2}

\* Control::new
Control(sequence, count, inst) == [sequence |-> sequence, count |-> count, inst |-> inst]
Controls == {Control(q, n, i) : q \in Seqs, n \in 0..MaxCount, i \in Insts}

\* #[derive(Default)] ControlSetBuilder
NewBuilder == [sequence |-> {}, frontier |-> <<>>, instructions |-> <<>>, count |-> {}]

\* The match of lines 102-105: None is dropped, anything else is pushed.
PushInst_clearOnNone(insts, inst) == IF inst.tag = "None" THEN <<>> ELSE Append(insts, inst)
PushInst(insts, inst) == IF inst.tag = "None" THEN insts ELSE Append(insts, inst)

\* Lines 93-96: the count left after this fragment, {} when the assertion fails.
CountDown_skipNone(count, control) ==
    IF Unwrap(count) > 0
    THEN (IF control.inst.tag = "None" THEN count ELSE Some(Unwrap(count) - 1))
    ELSE {}
CountDown(count, control) == IF Unwrap(count) > 0 THEN Some(Unwrap(count) - 1) ELSE {}

\* Lines 97-101: the sequence check, FALSE when assert_eq fails.
SequenceOk_any(sequence, control) == TRUE
SequenceOk(sequence, control) == sequence = {} \/ Unwrap(sequence) = control.sequence

\* Lines 90-92: the first fragment's count initialises the builder's.
InitCount_always(count, control) == Some(control.count)
InitCount(count, control) == IF count = {} THEN Some(control.count) ELSE count

\* ControlSetBuilder::apply: the builder afterwards and how the call ended.
apply(b, control) ==
    LET c0 == InitCount(b.count, control)
        c1 == CountDown(c0, control)
    IN  IF c1 = {}
        THEN [b |-> [b EXCEPT !.count = c0], end |-> "panic: incorrect number of Controls"]
        ELSE IF ~SequenceOk(b.sequence, control)
        THEN [b |-> [b EXCEPT !.count = c1], end |-> "panic: inconsistent sequence number"]
        ELSE [b |-> [b EXCEPT !.count = c1,
                              !.sequence = Some(control.sequence),
                              !.instructions = PushInst(@, control.inst)],
              end |-> "ok"]

\* ControlSetBuilder::frontier
frontier_extend(b, caps) == [b EXCEPT !.frontier = @ \o caps]

\* Antichain::insert: keep the element unless one already there is <= it, and
\* drop the elements it is <= to.
AntichainInsert_noDrop(a, e) ==
    IF \E x \in a : x <= e THEN a ELSE a \cup {e}
AntichainInsert(a, e) ==
    IF \E x \in a : x <= e THEN a ELSE {x \in a : ~(e <= x)} \cup {e}

RECURSIVE InsertAll(_, _)
InsertAll(a, caps) ==
    IF caps = <<>> THEN a ELSE InsertAll(AntichainInsert(a, Head(caps)), Tail(caps))

\* Lines 115-116: the antichain of the collected times.
BuildFrontier_fromMinimum(caps) == InsertAll({0}, caps)
BuildFrontier(caps) == InsertAll({}, caps)

\* One instruction on the map (lines 121-128); {} when map[bin] is out of bounds.
ApplyInst_noClear(map, inst) ==
    CASE inst.tag = "Map"  -> Some(map \o inst.map)
      [] inst.tag = "Move" -> IF inst.bin < Len(map)
                              THEN Some([map EXCEPT ![inst.bin + 1] = inst.target])
                              ELSE {}
      [] OTHER             -> Some(map)
ApplyInst(map, inst) ==
    CASE inst.tag = "Map"  -> Some(inst.map)
      [] inst.tag = "Move" -> IF inst.bin < Len(map)
                              THEN Some([map EXCEPT ![inst.bin + 1] = inst.target])
                              ELSE {}
      [] OTHER             -> Some(map)

\* Lines 120-129: the instructions in push order.
ApplyInsts_none(map, insts) == Some(map)
RECURSIVE ApplyInsts(_, _)
ApplyInsts(map, insts) ==
    IF insts = <<>> THEN Some(map)
    ELSE LET m == ApplyInst(map, Head(insts))
         IN  IF m = {} THEN {} ELSE ApplyInsts(Unwrap(m), Tail(insts))

\* ControlSetBuilder::build: the ControlSet (as Some) and how the call ended.
build(b, prev) ==
    LET map == ApplyInsts(prev.map, b.instructions)
    IN  IF UnwrapOr(b.count, 0) # 0
        THEN [set |-> {}, end |-> "panic: count left"]
        ELSE IF map = {}
        THEN [set |-> {}, end |-> "panic: index out of bounds"]
        ELSE IF b.sequence = {}
        THEN [set |-> {}, end |-> "panic: unwrap on None"]
        ELSE [set |-> Some([sequence |-> Unwrap(b.sequence),
                            frontier |-> BuildFrontier(b.frontier),
                            map |-> Unwrap(map)]),
              end |-> "ok"]

\* A fresh builder fed the fragments in this order.
RECURSIVE ApplyAll(_, _)
ApplyAll(r, cs) ==
    IF cs = <<>> \/ r.end # "ok" THEN r
    ELSE ApplyAll(apply(r.b, Head(cs)), Tail(cs))

BuildFrom(cs, prev) ==
    LET r == ApplyAll([b |-> NewBuilder, end |-> "ok"], cs)
    IN  IF r.end = "ok" THEN build(r.b, prev) ELSE [set |-> {}, end |-> r.end]

\* The mapping in force before any control is committed: every bin on worker 0,
\* authoritative from the least time.
InitialControlSet ==
    [sequence |-> 0, frontier |-> {0}, map |-> [i \in 1..Pow2(BIN_SHIFT) |-> 0]]

NoCall == [op |-> "none", control |-> Control(0, 0, NoneInst), applied |-> <<>>,
           prev |-> InitialControlSet]

----------------------------------------------------------------------------
\* One builder and its caller, which may make any call at any moment. A call
\* that panics ends the process; build consumes the builder.
CtlInit ==
    /\ builder = NewBuilder
    /\ previous = InitialControlSet
    /\ ctl = "ok"
    /\ applied = <<>>
    /\ last = NoCall
    /\ clock = 0
    /\ builds = 0
    /\ frontier = {} /\ input = <<>> /\ pending = <<>> /\ notif = <<>> /\ states = <<>>
    /\ output = <<>> /\ folded = <<>> /\ received = {} /\ sent = 0 /\ seen = {}
    /\ shift = 0 /\ key = <<>> /\ bin = {}
    /\ stores = <<>> /\ transit = {} /\ held = <<>> /\ resumed = <<>>

Apply ==
    \E control \in Controls :
        LET r == apply(builder, control)
        IN  /\ ctl = "ok" /\ builds = 0
            /\ builder' = r.b
            /\ ctl' = r.end
            /\ applied' = IF r.end = "ok" THEN Append(applied, control) ELSE applied
            /\ last' = [op |-> "apply", control |-> control, applied |-> applied, prev |-> previous]
            /\ UNCHANGED <<previous, clock, builds, opvars, binvars, migvars>>

Frontier ==
    \E t \in CapTimes :
        /\ ctl = "ok" /\ builds = 0
        /\ Len(builder.frontier) < MaxCaps
        /\ builder' = frontier_extend(builder, <<t>>)
        /\ last' = [op |-> "frontier", control |-> NoCall.control, applied |-> applied, prev |-> previous]
        /\ UNCHANGED <<previous, ctl, applied, clock, builds, opvars, binvars, migvars>>

Build ==
    LET r == build(builder, previous)
    IN  /\ ctl = "ok" /\ builds = 0
        /\ ctl' = r.end
        /\ previous' = IF r.end = "ok" THEN Unwrap(r.set) ELSE previous
        /\ builds' = IF r.end = "ok" THEN 1 ELSE 0
        /\ last' = [op |-> "build", control |-> NoCall.control, applied |-> applied, prev |-> previous]
        /\ UNCHANGED <<builder, applied, clock, opvars, binvars, migvars>>

CtlNext == Apply \/ Frontier \/ Build
SpecCtl == CtlInit /\ [][CtlNext]_vars

----------------------------------------------------------------------------
\* The builder as the control input drives it: a fragment observed at a time
\* the control input still allows is applied and its time recorded; the set is
\* built once the control input has passed every recorded time, and the next
\* fragments go to a fresh builder. The history keeps the previous set only.
DrvControls == {Control(q, n, i) : q \in Seqs, n \in 1..MaxCount,
                                   i \in {MapInst(<<0, 1, 2, 3>>), MoveInst(2, 3), NoneInst}}

DrvInit ==
    /\ builder = NewBuilder
    /\ previous = InitialControlSet
    /\ ctl = "ok"
    /\ applied = <<>>
    /\ last = NoCall
    /\ clock = 0
    /\ builds = 0
    /\ frontier = {} /\ input = <<>> /\ pending = <<>> /\ notif = <<>> /\ states = <<>>
    /\ output = <<>> /\ folded = <<>> /\ received = {} /\ sent = 0 /\ seen = {}
    /\ shift = 0 /\ key = <<>> /\ bin = {}
    /\ stores = <<>> /\ transit = {} /\ held = <<>> /\ resumed = <<>>

\* A fragment of time t can still arrive.
Observable_anyTime(t) == TRUE
Observable(t) == clock <= t

DrvObserve ==
    \E control \in DrvControls, t \in Times :
        LET r == apply(builder, control)
        IN  /\ ctl = "ok" /\ builds < MaxBuilds
            /\ Observable(t)
            /\ builder' = IF r.end = "ok" THEN frontier_extend(r.b, <<t>>) ELSE r.b
            /\ ctl' = r.end
            /\ last' = [NoCall EXCEPT !.op = "apply", !.prev = previous]
            /\ UNCHANGED <<previous, applied, clock, builds, opvars, binvars, migvars>>

DrvAdvance ==
    /\ ctl = "ok"
    /\ clock <= MaxTime
    /\ clock' = clock + 1
    /\ UNCHANGED <<builder, previous, ctl, applied, last, builds, opvars, binvars, migvars>>

DrvCommit ==
    LET r == build(builder, previous)
    IN  /\ ctl = "ok"
        /\ builder.frontier # <<>>
        /\ \A i \in 1..Len(builder.frontier) : builder.frontier[i] < clock
        /\ ctl' = r.end
        /\ previous' = IF r.end = "ok" THEN Unwrap(r.set) ELSE previous
        /\ builder' = IF r.end = "ok" THEN NewBuilder ELSE builder
        /\ builds' = IF r.end = "ok" THEN builds + 1 ELSE builds
        /\ last' = [NoCall EXCEPT !.op = "build", !.prev = previous]
        /\ UNCHANGED <<applied, clock, opvars, binvars, migvars>>

DrvNext == DrvObserve \/ DrvAdvance \/ DrvCommit
SpecDrv == DrvInit /\ [][DrvNext]_vars

----------------------------------------------------------------------------
\* key_to_bin. A u64 is its 64 bits, most significant first.
U64Bits == 64

RECURSIVE BitsOf(_, _)
BitsOf(n, width) ==
    IF width = 0 THEN <<>> ELSE Append(BitsOf(n \div 2, width - 1), n % 2)

\* The 16-bit patterns the sampled keys are made of.
LimbSamples == {0, 1, 32768, 42435, 65535}
SampleKeys ==
    {BitsOf(a, 16) \o BitsOf(b, 16) \o BitsOf(c, 16) \o BitsOf(d, 16) :
        a, b, c, d \in LimbSamples}

\* key >> n on 64 bits: zeros come in at the top, the low n bits fall off.
Shr(bits, n) == [i \in 1..U64Bits |-> IF i <= n THEN 0 ELSE bits[i - n]]

\* The number a bit pattern stands for.
RECURSIVE AsUsize(_)
AsUsize(bits) ==
    IF bits = <<>> THEN 0
    ELSE 2 * AsUsize(SubSeq(bits, 1, Len(bits) - 1)) + bits[Len(bits)]

\* size_of::<u64>() * 8 - BIN_SHIFT (the arithmetic binds tighter than >>)
ShiftAmount_offByOne(b) == 8 * 8 - 1 - b
ShiftAmount(b) == 8 * 8 - b

key_to_bin(k, b) == AsUsize(Shr(k, ShiftAmount(b)))

BinInit ==
    /\ shift \in 1..20
    /\ key \in SampleKeys
    /\ bin = {}
    /\ frontier = {} /\ input = <<>> /\ pending = <<>> /\ notif = <<>> /\ states = <<>>
    /\ output = <<>> /\ folded = <<>> /\ received = {} /\ sent = 0 /\ seen = {}
    /\ builder = 0 /\ previous = 0 /\ ctl = "idle" /\ applied = <<>>
    /\ last = 0 /\ clock = 0 /\ builds = 0
    /\ stores = <<>> /\ transit = {} /\ held = <<>> /\ resumed = <<>>

Hash ==
    /\ bin' = {key_to_bin(key, shift)}
    /\ UNCHANGED <<shift, key, opvars, ctlvars, migvars>>

BinNext == Hash
SpecBin == BinInit /\ [][BinNext]_vars

----------------------------------------------------------------------------
\* Claims about ControlSetBuilder (checked under SpecCtl).

\* The count the builder holds: the one its first fragment declared.
Declared(cs) == IF cs = <<>> THEN 0 ELSE cs[1].count

\* C4: build yields a ControlSet only when exactly `count` fragments have been
\* applied, every applied fragment counted, None ones too: with none applied,
\* or fewer than the count, build dies (of the count assertion or of the
\* unwrap of the missing sequence), and with exactly the count it dies of
\* neither.
C4_BuildNeedsCount ==
    last.op = "build" =>
        LET n == Len(applied)
            short == n = 0 \/ n < Declared(applied)
        IN  /\ ctl = "ok" => n >= 1 /\ n = Declared(applied)
            /\ short <=> ctl \in {"panic: count left", "panic: unwrap on None"}

\* build succeeded on two fragments, one of them a None.
C4_Witness ==
    /\ last.op = "build" /\ ctl = "ok"
    /\ Len(applied) = 2
    /\ \E i \in 1..2 : applied[i].inst = NoneInst
    /\ \E i \in 1..2 : applied[i].inst # NoneInst

\* C5: apply dies exactly when the fragment's sequence number differs from
\* that of the fragments already in the builder, or when as many fragments as
\* the count have already been applied; otherwise it succeeds.
C5_ApplyFailsIff ==
    last.op = "apply" =>
        LET n == Len(last.applied)
            count == IF n = 0 THEN last.control.count ELSE Declared(last.applied)
            mismatch == n > 0 /\ last.applied[1].sequence # last.control.sequence
            over == n >= count
        IN  /\ ctl # "ok" <=> (mismatch \/ over)
            /\ over => ctl = "panic: incorrect number of Controls"
            /\ mismatch /\ ~over => ctl = "panic: inconsistent sequence number"
            /\ ctl = "ok" => applied = Append(last.applied, last.control)

\* A fragment of another sequence number arrived before the count was reached.
C5_Witness ==
    /\ last.op = "apply"
    /\ ctl = "panic: inconsistent sequence number"
    /\ Len(applied) = 1 /\ applied[1].count = 2

Perms(n) == {p \in [1..n -> 1..n] : \A i, j \in 1..n : p[i] = p[j] => i = j}

WellFormed(inst) == inst.tag = "Map" => Len(inst.map) = Pow2(BIN_SHIFT)

\* C6: the mapping build returns does not depend on the order in which the
\* fragments (of one sequence and count) were applied: a builder fed the same
\* fragments in any other order builds the same mapping. Stated for fragments
\* whose maps have the right length, where it already fails.
C6_OrderIndependent ==
    (/\ last.op = "build" /\ ctl = "ok"
     /\ \A i \in 1..Len(applied) :
           applied[i].count = Declared(applied) /\ WellFormed(applied[i].inst))
    => \A p \in Perms(Len(applied)) :
          LET r == BuildFrom([i \in 1..Len(applied) |-> applied[p[i]]], last.prev)
          IN  r.end = "ok" => Unwrap(r.set).map = previous.map

\* The fragments without the None ones, the count adjusted.
RECURSIVE WithoutNone(_)
WithoutNone(cs) ==
    IF cs = <<>> THEN <<>>
    ELSE IF Head(cs).inst = NoneInst THEN WithoutNone(Tail(cs))
    ELSE <<Head(cs)>> \o WithoutNone(Tail(cs))

Recount(cs) == [i \in 1..Len(cs) |-> [cs[i] EXCEPT !.count = Len(cs)]]

\* C7: a None fragment never changes the committed mapping: a builder given
\* only None fragments builds the previous mapping, and any build gives the
\* mapping the same fragments without the None ones give.
C7_NoneIsNoOp ==
    last.op = "build" /\ ctl = "ok" =>
        LET core == Recount(WithoutNone(applied))
        IN  /\ core = <<>> => previous.map = last.prev.map
            /\ core # <<>> =>
                 LET r == BuildFrom(core, last.prev)
                 IN  r.end = "ok" /\ Unwrap(r.set).map = previous.map

\* A move followed by a None was built and the mapping changed.
C7_Witness ==
    /\ last.op = "build" /\ ctl = "ok"
    /\ Len(applied) = 2
    /\ applied[1].inst.tag = "Move" /\ applied[2].inst = NoneInst
    /\ previous.map # last.prev.map

\* C8: every committed mapping has length 2^BIN_SHIFT.
C8_MappingLength == Len(previous.map) = Pow2(BIN_SHIFT)

----------------------------------------------------------------------------
\* Claims about key_to_bin (checked under SpecBin).

\* The 16-bit limb j of a key, limb 0 the most significant.
Limb(k, j) == AsUsize(SubSeq(k, 16 * j + 1, 16 * j + 16))

\* floor(key / 2^n) for 44 <= n <= 63, by the arithmetic of the limbs: with
\* n = 32 + m it is floor((limb0 * 2^16 + limb1) / 2^m).
FloorDivPow2(k, n) ==
    LET m == n - 32
    IN  IF m >= 16
        THEN Limb(k, 0) \div Pow2(m - 16)
        ELSE Limb(k, 0) * Pow2(16 - m) + Limb(k, 1) \div Pow2(m)

\* C9: key_to_bin returns the top BIN_SHIFT bits of the key: for every
\* BIN_SHIFT B in 1..20 the bin is floor(key / 2^(64 - B)) and lies in [0, 2^B).
C9_TopBits ==
    \A v \in bin :
        /\ v = FloorDivPow2(key, U64Bits - shift)
        /\ 0 <= v /\ v < Pow2(shift)

\* The bin of a key whose top 20 bits straddle the first two limbs.
C9_Witness ==
    /\ shift = 20
    /\ bin = {42435 * 16 + 10}
    /\ Limb(key, 0) = 42435 /\ Limb(key, 1) = 42435

----------------------------------------------------------------------------
\* Claims about successive control sets (checked under SpecDrv).

\* C10: a control set built on a previous one has a frontier that is not
\* earlier: none of its elements is strictly less than every element of the
\* previous set's frontier.
C10_FrontierMonotone ==
    last.op = "build" /\ ctl = "ok" =>
        ~ \E e \in previous.frontier : \A x \in last.prev.frontier : e < x

\* A second control set was built, with a frontier later than the first's.
C10_Witness ==
    /\ last.op = "build" /\ ctl = "ok"
    /\ builds = 2
    /\ \E e \in previous.frontier : \A x \in last.prev.frontier : x < e

\* C11: every control set built on a previous one has a sequence number not
\* below the previous set's.
C11_SequenceMonotone ==
    last.op = "build" /\ ctl = "ok" => previous.sequence >= last.prev.sequence

----------------------------------------------------------------------------
\* Claims about what build returns (checked under SpecCtl).

\* The instructions a builder fed these fragments holds: None is not kept.
Kept(cs) == SelectSeq(cs, LAMBDA c : c.inst.tag # "None")

\* The last Map among the fragments, 0 when there is none.
LastMap(cs) ==
    LET maps == {i \in 1..Len(cs) : cs[i].inst.tag = "Map"}
    IN  IF maps = {} THEN 0 ELSE CHOOSE i \in maps : \A j \in maps : j <= i

\* The mapping the claim describes, entry by entry: the last Map (or the
\* previous mapping) overridden per bin by the last Move of that bin after it.
Expected(cs, prev) ==
    LET base == IF LastMap(cs) = 0 THEN prev.map ELSE cs[LastMap(cs)].inst.map
    IN  [j \in 1..Len(base) |->
            LET moves == {i \in (LastMap(cs) + 1)..Len(cs) :
                              cs[i].inst.tag = "Move" /\ cs[i].inst.bin = j - 1}
            IN  IF moves = {} THEN base[j]
                ELSE cs[CHOOSE i \in moves : \A k \in moves : k <= i].inst.target]

\* C14: a successful build returns the previous mapping with the non-None
\* instructions applied in fragment order (Map replaces everything, Move sets
\* one entry), under the fragments' sequence number.
C14_BuildAppliesInOrder ==
    last.op = "build" /\ ctl = "ok" =>
        /\ previous.map = Expected(Kept(applied), last.prev)
        /\ \A i \in 1..Len(applied) : previous.sequence = applied[i].sequence
        /\ applied # <<>>

C14_Witness ==
    /\ last.op = "build" /\ ctl = "ok"
    /\ Len(applied) = 2
    /\ applied[1].inst.tag = "Map" /\ applied[2].inst.tag = "Move"
    /\ previous.map # applied[1].inst.map

\* The times a builder collected, and the minimal elements of a set of times.
Collected(b) == {b.frontier[i] : i \in 1..Len(b.frontier)}
Minimal(S) == {x \in S : \A y \in S : ~(y < x)}

\* C15: the frontier of a built ControlSet holds exactly the minimal elements
\* of the times handed to frontier() (none when no time was), so every
\* collected time is >= some element of it.
C15_FrontierIsAntichain ==
    last.op = "build" /\ ctl = "ok" =>
        /\ previous.frontier = Minimal(Collected(builder))
        /\ \A t \in Collected(builder) : \E f \in previous.frontier : f <= t
        /\ (builder.frontier = <<>> => previous.frontier = {})

C15_Witness ==
    /\ last.op = "build" /\ ctl = "ok"
    /\ Len(builder.frontier) = 2
    /\ builder.frontier[2] < builder.frontier[1]
    /\ previous.frontier = {builder.frontier[2]}

CountPanics == {"panic: incorrect number of Controls", "panic: count left"}

\* C19: the number of fragments a builder requires is the count of the first
\* fragment applied: the count left is that count less the fragments applied,
\* whatever counts the later ones declare; fed the same fragments in any order,
\* the builder dies of a count assertion exactly when the fragment that came
\* first declares another count than their number; and a first fragment of
\* count 0 makes apply die.
C19_FirstCountDecides ==
    /\ ctl = "ok" =>
          builder.count = IF applied = <<>> THEN {}
                          ELSE Some(applied[1].count - Len(applied))
    /\ last.op = "build" /\ applied # <<>> =>
          \A p \in Perms(Len(applied)) :
              LET r == BuildFrom([i \in 1..Len(applied) |-> applied[p[i]]], last.prev)
              IN  r.end \in CountPanics <=> applied[p[1]].count # Len(applied)
    /\ last.op = "apply" /\ last.applied = <<>> /\ last.control.count = 0 =>
          ctl = "panic: incorrect number of Controls"

C19_Witness ==
    /\ last.op = "build" /\ ctl = "ok"
    /\ Len(applied) = 2
    /\ applied[1].count = 2 /\ applied[2].count = 1

\* The worker a control set assigns a bin to.
Owner(set, b) == set.map[b + 1]

\* The first scenario: a single fragment Map([0,1,2,3]) was built.
Scenario1 ==
    /\ last.op = "build" /\ ctl = "ok"
    /\ Len(applied) = 1 /\ applied[1].inst = MapInst(<<0, 1, 2, 3>>)

\* C18, as stated: after the single Map([0,1,2,3]) is committed, bin 2 (the bin
\* key "a" hashes to) is assigned to worker 3.
C18_Bin2OnWorker3 ==
    Scenario1 => Owner(previous, KeyId("a")) = 3

\* C18, amended: after the single Map([0,1,2,3]) is committed, bin 2 (the bin
\* key "a" hashes to) is assigned to worker 2 and to no other worker; every bin
\* i is assigned to worker i.
C18_Bin2OnWorker2 ==
    Scenario1 =>
        /\ KeyId("a") = 2
        /\ Owner(previous, KeyId("a")) = 2
        /\ \A b \in 0..(Pow2(BIN_SHIFT) - 1) : Owner(previous, b) = b

C18_Witness ==
    /\ Scenario1
    /\ applied[1].count = 1
    /\ previous.map = <<0, 1, 2, 3>>

----------------------------------------------------------------------------
\* Claims about the state_machine operator (checked under SpecOp).

FoldCount(id) == Cardinality({i \in 1..Len(folded) : folded[i].id = id})
InPending(id) == \E t \in DOMAIN pending : \E i \in 1..Len(pending[t]) : pending[t][i].id = id
Stashed(id)   == IF InPending(id) THEN 1 ELSE 0

\* C1: every received record is folded exactly once. No record is folded twice
\* (by both paths, or by two notifications for its time); a record pulled from
\* the input is either still in the pending buffer or has been folded once,
\* never both; a record not yet pulled has not been folded; and once an
\* invocation has read a frontier that has passed the record's time, the
\* record has been folded and is no longer buffered.
C1_FoldedExactlyOnce ==
    /\ \A id \in 1..sent : FoldCount(id) <= 1
    /\ \A r \in received : FoldCount(r.id) + Stashed(r.id) = 1
    /\ \A id \in 1..sent :
          (\A r \in received : r.id # id) => FoldCount(id) = 0 /\ ~InPending(id)
    /\ \A r \in received, f \in seen :
          ~less_equal(f, r.time) => FoldCount(r.id) = 1 /\ ~InPending(r.id)

\* Two batches of one time were stashed (two notifications requested for it),
\* the frontier passed the time and both notifications were delivered.
C1_Witness ==
    /\ \E i, j \in 1..Len(folded) :
          /\ folded[i].path = "notify" /\ folded[j].path = "notify"
          /\ folded[i].time = folded[j].time
          /\ folded[j].id - folded[i].id >= MaxBatch
    /\ \A t \in Times : notif[t] = 0
    /\ pending = <<>>

\* C2: fold is never called on a record of time t while the frontier the
\* invocation read still allows records of time <= t (t has not closed).
C2_NeverBeforeClosed ==
    \A i \in 1..Len(folded) : ~less_equal(folded[i].frontier, folded[i].time)

\* C3: the calls of fold are in non-decreasing order of time.
C3_NonDecreasingTimes ==
    \A i, j \in 1..Len(folded) : i < j => folded[i].time <= folded[j].time

\* One invocation delivered a notification and then folded a newly arrived
\* record of a later time on the immediate path.
C3_Witness ==
    \E i, j \in 1..Len(folded) :
        /\ i < j
        /\ folded[i].path = "notify" /\ folded[j].path = "immediate"
        /\ folded[i].frontier = folded[j].frontier
        /\ folded[i].time < folded[j].time

----------------------------------------------------------------------------
\* Claims about records of closed times (checked under SpecLate).

\* C13: a record pulled from the input when its time has already closed (no
\* element of the frontier the invocation read is <= its time) is not folded:
\* every record folded on arrival has a time the frontier still allows.
C13_LateRecordNotFolded ==
    \A i \in 1..Len(folded) :
        folded[i].path = "immediate" => less_equal(folded[i].frontier, folded[i].time)

----------------------------------------------------------------------------
\* C20: after every invocation, each time with an entry in the pending buffer
\* is still open for the frontier that invocation read (some element of it is
\* <= the time) and has a notification requested: nothing stays buffered for
\* a time the operator has seen closed.
C20_PendingOpenAndRequested ==
    \A f \in seen, t \in DOMAIN pending :
        /\ less_equal(f, t)
        /\ notif[t] > 0
        /\ pending[t] # <<>>

C20_Witness ==
    /\ seen = {{2}}
    /\ 2 \in DOMAIN pending
    /\ \E i \in 1..Len(folded) : folded[i].path = "notify" /\ folded[i].time = 1

----------------------------------------------------------------------------
\* The state a key has in a snapshot of the per-bin maps, {} when it has none.
StateOf(st, b, k) == IF k \in DOMAIN st[b] THEN Some(st[b][k]) ELSE {}

\* C17: every fold of a record (key_id, key, val) at time t starts from the
\* key's entry in the map of bin key_id, or from the default state when there
\* is none; the outputs of fold are appended to the output at time t; afterwards
\* the key has no entry iff fold asked for removal, and otherwise holds the
\* state fold left; the entries of all other keys, in every bin, are as before.
C17_FoldStep ==
    \A i \in 1..Len(folded) :
        LET e   == folded[i]
            cur == UnwrapOr(StateOf(e.before, e.key_id, e.key), DefaultState)
            res == fold(e.key, e.val, cur)
        IN  /\ StateOf(e.after, e.key_id, e.key) = IF res.remove THEN {} ELSE Some(res.state)
            /\ \A b \in Bins, k \in Keys :
                   (b # e.key_id \/ k # e.key) => StateOf(e.after, b, k) = StateOf(e.before, b, k)
            /\ Len(output) >= e.out + Len(res.out)
            /\ \A j \in 1..Len(res.out) : output[e.out + j] = [time |-> e.time, val |-> res.out[j]]
            /\ i < Len(folded) => folded[i + 1].before = e.after /\ folded[i + 1].out = e.out + Len(res.out)
            /\ i = Len(folded) => states = e.after /\ Len(output) = e.out + Len(res.out)

\* A key folded three times: created, removed by the second fold, created anew
\* from the default state by the third.
C17_Witness ==
    \E i, j, l \in 1..Len(folded) :
        /\ i < j /\ j < l
        /\ folded[i].key = "a" /\ folded[j].key = "a" /\ folded[l].key = "a"
        /\ StateOf(folded[i].before, 2, "a") = {}
        /\ StateOf(folded[j].after, 2, "a") = {}
        /\ StateOf(folded[l].after, 2, "a") = Some(1)

----------------------------------------------------------------------------
\* Claims about the order of folds (checked under SpecOrd).

\* The operator that buffers every record and folds it on notification: the
\* records are folded by time, and within a time in the order they arrived
\* (ids are given in arrival order). Run here on the records of the history.
RECURSIVE Buffering(_, _)
Buffering(m, es) ==
    IF es = {} THEN m
    ELSE LET e == CHOOSE x \in es : \A y \in es :
                      x.time < y.time \/ (x.time = y.time /\ x.id <= y.id)
         IN  Buffering(FoldOne(m, {}, e.time, e, "notify"), es \ {e})

Reference ==
    Buffering([Mach EXCEPT !.states = [b \in Bins |-> <<>>], !.output = <<>>, !.folded = <<>>],
              {[id |-> folded[i].id, time |-> folded[i].time, key |-> folded[i].key,
                val |-> folded[i].val, key_id |-> folded[i].key_id] : i \in 1..Len(folded)})

\* How many times an output stream holds a value at a time.
Emitted(out, t, v) == Cardinality({i \in 1..Len(out) : out[i].time = t /\ out[i].val = v})

\* Every record sent has been folded and the input is closed.
Quiescent == frontier = {} /\ input = <<>> /\ seen = {{}}

\* C16: once the input is closed and everything is folded, the per-key states
\* and the outputs emitted at each time are those of the operator that always
\* buffers.
C16_SameAsBuffering ==
    Quiescent =>
        /\ states = Reference.states
        /\ \A t \in Times, v \in 1..(RemoveAt + 2) :
               Emitted(output, t, v) = Emitted(Reference.output, t, v)

----------------------------------------------------------------------------
\* State relocation: the workers' state stores under the committed control
\* sets. A record is folded by the worker owning its bin; committing a control
\* set makes every worker that lost a bin flush the bin's whole key-state map
\* and send it to the new owner, which merges it on arrival and folds records
\* of the bin only from then on.
Workers == 0..(Pow2(BIN_SHIFT) - 1)
EmptyStores == [w \in Workers |-> [b \in Bins |-> <<>>]]
MigInsts == {MoveInst(2, 3), MoveInst(2, 0), MoveInst(0, 1), MapInst(<<0, 1, 2, 3>>)}

\* The bins the new control set gives to another worker.
Changed(old, new) == {b \in Bins : Owner(old, b) # Owner(new, b)}

\* The losing worker's store once the bin is flushed.
Flush_keep(st, w, b) == st
Flush(st, w, b) == [st EXCEPT ![w][b] = <<>>]

RECURSIVE FlushAll(_, _, _)
FlushAll(st, old, bs) ==
    IF bs = {} THEN st
    ELSE LET b == CHOOSE x \in bs : TRUE
         IN  FlushAll(Flush(st, Owner(old, b), b), old, bs \ {b})

\* The gaining worker merges the arrived map into its own map of the bin.
Merge(mine, arrived) ==
    [k \in (DOMAIN mine) \cup (DOMAIN arrived) |->
        IF k \in DOMAIN arrived THEN arrived[k] ELSE mine[k]]

MigInit ==
    /\ stores = EmptyStores
    /\ transit = {}
    /\ held = EmptyStores
    /\ resumed = [b \in Bins |-> {}]
    /\ builder = NewBuilder
    /\ previous = InitialControlSet
    /\ ctl = "ok"
    /\ applied = <<>>
    /\ last = NoCall
    /\ clock = 0
    /\ builds = 0
    /\ frontier = {} /\ input = <<>> /\ pending = <<>> /\ notif = <<>> /\ states = <<>>
    /\ output = <<>> /\ folded = <<>> /\ received = {} /\ sent = 0 /\ seen = {}
    /\ shift = 0 /\ key = <<>> /\ bin = {}

\* A record is routed to the owner of its bin and folded there.
MigFold ==
    \E k \in Keys :
        LET b   == KeyId(k)
            w   == Owner(previous, b)
            bs  == stores[w][b]
            cur == IF k \in DOMAIN bs THEN bs[k] ELSE DefaultState
        IN  /\ sent < MaxRecords
            /\ \A m \in transit : m.bin # b
            /\ stores' = [stores EXCEPT ![w][b] = StoreState(bs, k, fold(k, 1, cur))]
            /\ sent' = sent + 1
            /\ UNCHANGED <<frontier, input, pending, notif, states, output, folded, received, seen>>
            /\ UNCHANGED <<transit, held, resumed, ctlvars, binvars>>

\* A control set is committed: the bins that change owner are flushed and sent.
MigCommit ==
    \E inst \in MigInsts :
        LET r     == BuildFrom(<<Control(builds + 1, 1, inst)>>, previous)
            new   == Unwrap(r.set)
            moved == Changed(previous, new)
        IN  /\ builds < MaxBuilds
            /\ transit = {}
            /\ r.end = "ok"
            /\ previous' = new
            /\ builds' = builds + 1
            /\ last' = [NoCall EXCEPT !.op = "build", !.prev = previous]
            /\ held' = stores
            /\ stores' = FlushAll(stores, previous, moved)
            /\ transit' = {[bin |-> b, target |-> Owner(new, b),
                            state |-> stores[Owner(previous, b)][b]] : b \in moved}
            /\ resumed' = [b \in Bins |-> {}]
            /\ UNCHANGED <<builder, ctl, applied, clock, opvars, binvars>>

\* A flushed bin arrives at its new owner.
MigDeliver ==
    \E m \in transit :
        LET got == Merge(stores[m.target][m.bin], m.state)
        IN  /\ stores' = [stores EXCEPT ![m.target][m.bin] = got]
            /\ transit' = transit \ {m}
            /\ resumed' = [resumed EXCEPT ![m.bin] = Some(got)]
            /\ UNCHANGED <<held, opvars, ctlvars, binvars>>

MigNext == MigFold \/ MigCommit \/ MigDeliver
SpecMig == MigInit /\ [][MigNext]_vars

\* The workers holding state of a bin, the maps of the bin on their way.
Holders(b) == {w \in Workers : stores[w][b] # <<>>}
InFlight(b) == {m \in transit : m.bin = b /\ m.state # <<>>}

\* C12: the state of a bin is in one place only, at its owner or on its way
\* to it; for a bin the last committed control set moved from worker A to
\* worker B, A holds no entry of it afterwards, and what B resumes with (and
\* what travels to B) is exactly the key-state map A held when the set was
\* committed.
C12_StateConserved ==
    \A b \in Bins :
        LET A == Owner(last.prev, b)
            B == Owner(previous, b)
        IN  /\ Cardinality(Holders(b)) + Cardinality(InFlight(b)) <= 1
            /\ Holders(b) \subseteq {B}
            /\ \A m \in InFlight(b) : m.target = B
            /\ (last.op = "build" /\ A # B) =>
                   /\ stores[A][b] = <<>>
                   /\ \A m \in transit : m.bin = b => m.state = held[A][b]
                   /\ resumed[b] # {} => resumed[b] = Some(held[A][b])
                   /\ (resumed[b] = {} => \E m \in transit : m.bin = b)

\* The second scenario: bin 2, with a state for "a", moved to worker 3 and
\* from there to worker 0, which resumed with it.
C12_Witness ==
    /\ builds = 2
    /\ Owner(last.prev, 2) = 3 /\ Owner(previous, 2) = 0
    /\ held[3][2] = [k \in {"a"} |-> 1]
    /\ resumed[2] = Some(held[3][2])
    /\ stores[0][2] = held[3][2] /\ stores[3][2] = <<>>

====
